---- MODULE Spec2Model ----
(***************************************************************************)
(* Model of AI_Assistant_App.py: the Start Research handler, the cached    *)
(* tool initializer, agent and task composition, the submission to the     *)
(* crew engine and the rendering of the outcome.                           *)
(*                                                                         *)
(* Python objects are records with a cls field; None is the record None.   *)
(* Texts are TLA+ strings, built with \o exactly as the f-strings build    *)
(* them.  A handler run is cut into steps by pc; while a run is in         *)
(* progress exactly one step is enabled, so a run always continues in      *)
(* program order.                                                          *)
(***************************************************************************)
EXTENDS Integers, Sequences, FiniteSets, TLC

VARIABLES
    \* sidebar and main widgets (lines 17-26, 125)
    openai_api_key, serper_api_key, selected_model,
    include_news, include_academic, output_format, topic,
    \* st.cache_resource store of initialize_tools (line 30), and the
    \* calls of initialize_tools that returned, each with what it returned
    cache, tool_calls,
    \* position in the handler, number of presses so far
    pc, presses,
    \* locals of run_research_pipeline (lines 62-90)
    llm, search_tool, research_agent, writer_agent,
    research_task, writing_task, crew,
    \* the engine's run of the two tasks inside crew.kickoff
    rstate, wstate, research_output, writing_context,
    \* outcome of the run
    exc, result, rendered, stages, kickoffs

widgets == <<openai_api_key, serper_api_key, selected_model,
             include_news, include_academic, output_format, topic>>
locals  == <<llm, search_tool, research_agent, writer_agent,
             research_task, writing_task, crew>>
engine  == <<rstate, wstate, research_output, writing_context>>
outcome == <<exc, result, rendered, stages, kickoffs>>
vars    == <<widgets, cache, tool_calls, pc, presses, locals, engine, outcome>>

----------------------------------------------------------------------------
(* Bounds and input domains *)

MaxPresses == 2

ApiKeys       == {"", "sk-A"}
SearchKeys    == {"", "serper-A"}
\* two of the three options of the selectbox of line 21
Models        == {"gpt-3.5-turbo", "o3-mini"}
OutputFormats == {"Markdown", "HTML", "Plain Text"}
Topics        == {"", "AI", "Key Findings"}
\* the description of the failure each stage may raise
ErrorText     == [tools    |-> "Incorrect API key provided",
                  agents   |-> "validation error for Agent",
                  tasks    |-> "validation error for Task",
                  crew     |-> "validation error for Crew",
                  research |-> "Connection error",
                  writing  |-> "Rate limit reached"]
Findings      == "- finding one"
KickoffTexts  == {"", "# Report"}

----------------------------------------------------------------------------
(* Python values *)

None == [cls |-> "NoneType"]

Str(s) == [cls |-> "str", value |-> s]

Exception(msg) == [cls |-> "Exception", msg |-> msg]

\* bool(x) of Python for the values a result can take
Truthy(v) == v.cls = "str" /\ Len(v.value) > 0

\* str(e) of an Exception
StrOf(e) == e.msg

----------------------------------------------------------------------------
(* Text helpers *)

Occurrences(s, sub) ==
    {i \in 1..(Len(s) - Len(sub) + 1) : SubSeq(s, i, i + Len(sub) - 1) = sub}

Contains(s, sub) == Occurrences(s, sub) # {}

----------------------------------------------------------------------------
(* initialize_tools under st.cache_resource *)

\* variant: the model name is left out of the key
CacheKey_NoModel(api_key, search_api_key, model_name) ==
    <<api_key, search_api_key>>

CacheKey(api_key, search_api_key, model_name) ==
    <<api_key, search_api_key, model_name>>

\* how many times the body ran before for these arguments: names the new
\* objects, so that two constructions never yield the same object
Generation(args) ==
    Cardinality({c \in tool_calls : c.args = args /\ c.created})

ChatOpenAI(model_name, api_key, oid) ==
    [cls |-> "ChatOpenAI", model |-> model_name, temperature |-> "0.3",
     openai_api_key |-> api_key, oid |-> oid]

SerperDevTool(search_api_key, oid) ==
    [cls |-> "SerperDevTool", api_key |-> search_api_key, oid |-> oid]

\* body of initialize_tools, lines 32-34
initialize_tools_body(api_key, search_api_key, model_name) ==
    LET oid == <<api_key, search_api_key, model_name,
                 Generation(<<api_key, search_api_key, model_name>>)>>
    IN  <<ChatOpenAI(model_name, api_key, oid),
          SerperDevTool(search_api_key, oid)>>

----------------------------------------------------------------------------
(* initialize_agents, lines 37-57 *)

Agent(role, goal, backstory, tool, model) ==
    [cls |-> "Agent", role |-> role, goal |-> goal, backstory |-> backstory,
     verbose |-> TRUE, memory |-> FALSE, tools |-> <<tool>>, llm |-> model]

initialize_agents(model, tool) ==
    <<Agent("Research Specialist",
            "Conduct fast, accurate research on the given topic",
            "Expert in information gathering and analysis", tool, model),
      Agent("Technical Research Writer",
            "Create concise, structured reports",
            "Specialist in clear, precise technical research paper writing",
            tool, model)>>

----------------------------------------------------------------------------
(* Task composition, lines 66-86 *)

Task(description, agent, expected_output, async_execution, context) ==
    [cls |-> "Task", description |-> description, agent |-> agent,
     expected_output |-> expected_output,
     async_execution |-> async_execution, context |-> context]

\* variant: the academic sentence is appended before the news sentence
ResearchDescription_AcademicFirst(t, news, academic) ==
    LET d0 == "Find key information about: " \o t
        d1 == IF academic
              THEN d0 \o " Also include research papers and academic sources."
              ELSE d0
    IN  IF news THEN d1 \o " Include the latest news articles." ELSE d1

\* lines 66-70
ResearchDescription(t, news, academic) ==
    LET d0 == "Find key information about: " \o t
        d1 == IF news THEN d0 \o " Include the latest news articles." ELSE d0
    IN  IF academic
        THEN d1 \o " Also include research papers and academic sources."
        ELSE d1

\* lines 75-77
ResearchExpectedOutput(academic) ==
    IF academic
    THEN "Detailed Bullet points of key facts, recent developments, and academic references."
    ELSE "Bullet points of key facts and recent developments."

\* lines 72-79
ResearchTask(t, news, academic, agent) ==
    Task(ResearchDescription(t, news, academic), agent,
         ResearchExpectedOutput(academic), TRUE, <<>>)

\* line 82
WritingDescription(t, fmt) ==
    "Create structured report on: " \o t \o " in " \o fmt \o " format."

\* variant: two of the sections change places
WritingExpectedOutput_Swapped(fmt) ==
    " A " \o fmt \o " document with:\n- Introduction\n- Key Findings\n- Future Outlook\n- Recent Developments\n- References"

\* line 84
WritingExpectedOutput(fmt) ==
    " A " \o fmt \o " document with:\n- Introduction\n- Key Findings\n- Recent Developments\n- Future Outlook\n- References"

\* variant: the writing task is given no context
WritingContext_Missing(rtask) == <<>>

\* line 85
WritingContext(rtask) == <<rtask>>

\* lines 81-86
WritingTask(t, fmt, agent, rtask) ==
    Task(WritingDescription(t, fmt), agent, WritingExpectedOutput(fmt),
         FALSE, WritingContext(rtask))

\* line 88 and the inputs of line 90
Crew(agents, tasks, inputs) ==
    [cls |-> "Crew", agents |-> agents, tasks |-> tasks, inputs |-> inputs]

----------------------------------------------------------------------------
(* Rendered elements *)

Element(call, body) == [call |-> call, body |-> body]

Warning       == Element("warning", "Please enter the research topic")
ErrorMsg(e)   == Element("error", "Error: " \o StrOf(e))
ReportHeading == Element("markdown", "## Research Report")
ReportBlock(r) ==
    Element("markdown", "<div class=\"report-output\">" \o r.value \o "</div>")
Divider       == Element("divider", "")
Footer        ==
    Element("markdown", "<p class=\"powered-by\">Powered by OpenAI and CrewAI</p>")
\* line 144; the tick emoji that precedes the text is not ASCII and is
\* left out
Success       == Element("success", "Research complete!")

----------------------------------------------------------------------------
(* Initial state: the page as first rendered, widgets at their defaults *)

Init ==
    /\ openai_api_key = ""
    /\ serper_api_key = ""
    /\ selected_model = "gpt-3.5-turbo"
    /\ include_news = TRUE
    /\ include_academic = TRUE
    /\ output_format = "Markdown"
    /\ topic = ""
    /\ cache = <<>>
    /\ tool_calls = {}
    /\ pc = "idle"
    /\ presses = 0
    /\ llm = None /\ search_tool = None
    /\ research_agent = None /\ writer_agent = None
    /\ research_task = None /\ writing_task = None /\ crew = None
    /\ rstate = "pending" /\ wstate = "pending"
    /\ research_output = None /\ writing_context = <<>>
    /\ exc = None /\ result = None
    /\ rendered = <<>> /\ stages = <<>> /\ kickoffs = 0

\* a failure raised inside the try block of run_research_pipeline
Raise(msg) ==
    /\ exc' = Exception(msg)
    /\ pc' = "except"

----------------------------------------------------------------------------
(* The Start Research handler, lines 129-144 *)

\* variant: the success notice belongs to the else branch only
AfterWarning_Done == "done"

\* where the handler goes after the warning of line 132: line 144 follows
\* the if/else of lines 131-142, at the level of the button block
AfterWarning == "success"

\* lines 129-135: the button is pressed with the widgets in some state; the
\* page is rendered anew, so nothing of the previous run but the cache is kept
StartResearch ==
    /\ pc \in {"idle", "done"}
    /\ presses < MaxPresses
    /\ presses' = presses + 1
    /\ openai_api_key' \in ApiKeys
    /\ serper_api_key' \in SearchKeys
    /\ selected_model' \in Models
    /\ include_news' \in BOOLEAN
    /\ include_academic' \in BOOLEAN
    /\ output_format' \in OutputFormats
    /\ topic' \in Topics
    /\ llm' = None /\ search_tool' = None
    /\ research_agent' = None /\ writer_agent' = None
    /\ research_task' = None /\ writing_task' = None /\ crew' = None
    /\ rstate' = "pending" /\ wstate' = "pending"
    /\ research_output' = None /\ writing_context' = <<>>
    /\ exc' = None /\ result' = None
    /\ stages' = <<>> /\ kickoffs' = 0
    /\ IF Len(topic') = 0
       THEN /\ rendered' = <<Warning>>
            /\ pc' = AfterWarning
       ELSE /\ rendered' = <<>>
            /\ pc' = "init"
    /\ UNCHANGED <<cache, tool_calls>>

----------------------------------------------------------------------------
(* run_research_pipeline, lines 60-98 *)

\* line 62 with the decorator of line 30: a call with cached arguments
\* returns the stored pair; otherwise the body runs and, when it returns,
\* its pair is stored under the arguments
InitializeTools ==
    /\ pc = "init"
    /\ stages' = Append(stages, "initialize")
    /\ LET key == CacheKey(openai_api_key, serper_api_key, selected_model)
       IN  IF key \in DOMAIN cache
           THEN /\ llm' = cache[key][1]
                /\ search_tool' = cache[key][2]
                /\ tool_calls' = tool_calls \cup
                      {[args |-> <<openai_api_key, serper_api_key, selected_model>>,
                        ret |-> cache[key], created |-> FALSE]}
                /\ pc' = "agents"
                /\ UNCHANGED <<cache, exc>>
           ELSE \/ LET pair == initialize_tools_body(openai_api_key,
                                   serper_api_key, selected_model)
                   IN  /\ llm' = pair[1]
                       /\ search_tool' = pair[2]
                       /\ cache' = [k \in DOMAIN cache \cup {key} |->
                                      IF k = key THEN pair ELSE cache[k]]
                       /\ tool_calls' = tool_calls \cup
                             {[args |-> <<openai_api_key, serper_api_key,
                                          selected_model>>,
                               ret |-> pair, created |-> TRUE]}
                       /\ pc' = "agents"
                       /\ UNCHANGED exc
                \/ /\ Raise(ErrorText.tools)
                   /\ UNCHANGED <<llm, search_tool, cache, tool_calls>>
    /\ UNCHANGED <<widgets, presses, research_agent, writer_agent,
                   research_task, writing_task, crew, engine,
                   result, rendered, kickoffs>>

\* line 63
InitializeAgents ==
    /\ pc = "agents"
    /\ \/ LET pair == initialize_agents(llm, search_tool)
          IN  /\ research_agent' = pair[1]
              /\ writer_agent' = pair[2]
              /\ pc' = "compose"
              /\ UNCHANGED exc
       \/ /\ Raise(ErrorText.agents)
          /\ UNCHANGED <<research_agent, writer_agent>>
    /\ UNCHANGED <<widgets, cache, tool_calls, presses, llm, search_tool,
                   research_task, writing_task, crew, engine,
                   result, rendered, stages, kickoffs>>

\* lines 66-86
ComposeTasks ==
    /\ pc = "compose"
    /\ stages' = Append(stages, "compose")
    /\ \/ LET rtask == ResearchTask(topic, include_news, include_academic,
                                    research_agent)
          IN  /\ research_task' = rtask
              /\ writing_task' = WritingTask(topic, output_format,
                                             writer_agent, rtask)
              /\ pc' = "submit"
              /\ UNCHANGED exc
       \/ /\ Raise(ErrorText.tasks)
          /\ UNCHANGED <<research_task, writing_task>>
    /\ UNCHANGED <<widgets, cache, tool_calls, presses, llm, search_tool,
                   research_agent, writer_agent, crew, engine,
                   result, rendered, kickoffs>>

\* lines 88-90: the crew is built and kickoff is entered; the engine starts
\* the research task, which is flagged async_execution
Kickoff ==
    /\ pc = "submit"
    /\ stages' = Append(stages, "submit")
    /\ \/ /\ crew' = Crew(<<research_agent, writer_agent>>,
                          <<research_task, writing_task>>,
                          [topic |-> topic])
          /\ kickoffs' = kickoffs + 1
          /\ rstate' = "running"
          /\ pc' = "engine"
          /\ UNCHANGED exc
       \/ /\ Raise(ErrorText.crew)
          /\ UNCHANGED <<crew, kickoffs, rstate>>
    /\ UNCHANGED <<widgets, cache, tool_calls, presses, llm, search_tool,
                   research_agent, writer_agent, research_task, writing_task,
                   wstate, research_output, writing_context,
                   result, rendered>>

----------------------------------------------------------------------------
(* The engine inside crew.kickoff: it runs the two tasks of the crew and    *)
(* returns the writing task's text, or raises                              *)

\* whether a task of the crew has completed
Completed(task) == task = research_task /\ rstate = "done"

\* the outputs of the tasks a task names as its context
ContextOutputs(task) ==
    [i \in DOMAIN task.context |-> research_output]

ResearchFinish ==
    /\ pc = "engine"
    /\ rstate = "running"
    /\ \/ /\ rstate' = "done"
          /\ research_output' = Str(Findings)
          /\ UNCHANGED <<pc, exc>>
       \/ /\ rstate' = "failed"
          /\ Raise(ErrorText.research)
          /\ UNCHANGED research_output
    /\ UNCHANGED <<widgets, cache, tool_calls, presses, locals,
                   wstate, writing_context, result, rendered, stages, kickoffs>>

\* the writing task starts once every task of its context has completed
WritingStart ==
    /\ pc = "engine"
    /\ wstate = "pending"
    /\ \A i \in DOMAIN writing_task.context : Completed(writing_task.context[i])
    /\ wstate' = "running"
    /\ writing_context' = ContextOutputs(writing_task)
    /\ UNCHANGED <<widgets, cache, tool_calls, presses, locals, pc,
                   rstate, research_output, outcome>>

\* kickoff returns when all tasks have finished
WritingFinish ==
    /\ pc = "engine"
    /\ wstate = "running"
    /\ rstate = "done"
    /\ \/ /\ wstate' = "done"
          /\ \E text \in KickoffTexts : result' = Str(text)
          /\ pc' = "render"
          /\ UNCHANGED exc
       \/ /\ wstate' = "failed"
          /\ Raise(ErrorText.writing)
          /\ UNCHANGED result
    /\ UNCHANGED <<widgets, cache, tool_calls, presses, locals,
                   rstate, research_output, writing_context,
                   rendered, stages, kickoffs>>

----------------------------------------------------------------------------
(* Failure and rendering *)

\* variant: the handler hands back what the research task had produced
HandleException_ReturnsPartial ==
    /\ pc = "except"
    /\ rendered' = Append(rendered, ErrorMsg(exc))
    /\ result' = research_output
    /\ pc' = "render"
    /\ UNCHANGED <<widgets, cache, tool_calls, presses, locals, engine,
                   exc, stages, kickoffs>>

\* variant: the handler submits the crew again
HandleException_Retry ==
    /\ pc = "except"
    /\ rendered' = Append(rendered, ErrorMsg(exc))
    /\ result' = None
    /\ pc' = IF crew # None THEN "submit" ELSE "render"
    /\ UNCHANGED <<widgets, cache, tool_calls, presses, locals, engine,
                   exc, stages, kickoffs>>

\* lines 96-98: st.error, return None
HandleException ==
    /\ pc = "except"
    /\ rendered' = Append(rendered, ErrorMsg(exc))
    /\ result' = None
    /\ pc' = "render"
    /\ UNCHANGED <<widgets, cache, tool_calls, presses, locals, engine,
                   exc, stages, kickoffs>>

\* variant: the report is shown for every returned text
ShowReport_AnyText(r) == r.cls = "str"

\* line 137
ShowReport(r) == Truthy(r)

\* lines 137-142
Render ==
    /\ pc = "render"
    /\ stages' = Append(stages, "render")
    /\ rendered' = rendered
                   \o (IF ShowReport(result)
                       THEN <<ReportHeading, ReportBlock(result)>>
                       ELSE <<>>)
                   \o <<Divider, Footer>>
    /\ pc' = "success"
    /\ UNCHANGED <<widgets, cache, tool_calls, presses, locals, engine,
                   exc, result, kickoffs>>

\* line 144
ShowSuccess ==
    /\ pc = "success"
    /\ rendered' = Append(rendered, Success)
    /\ pc' = "done"
    /\ UNCHANGED <<widgets, cache, tool_calls, presses, locals, engine,
                   exc, result, stages, kickoffs>>

----------------------------------------------------------------------------

Next ==
    \/ StartResearch
    \/ InitializeTools
    \/ InitializeAgents
    \/ ComposeTasks
    \/ Kickoff
    \/ ResearchFinish
    \/ WritingStart
    \/ WritingFinish
    \/ HandleException
    \/ Render
    \/ ShowSuccess

Spec == Init /\ [][Next]_vars

----------------------------------------------------------------------------
(* Properties *)

\* positions of the elements rendered by a given call
Shown(call) == {i \in DOMAIN rendered : rendered[i].call = call}

\* the run was cut short by a failure
Failed == exc # None

\* the handler has returned
Done == pc = "done"

\* C1: the research task's description is "Find key information about:
\* {topic}", then the news sentence iff include_news, then the academic
\* sentence iff include_academic; its expected output is the detailed text
\* iff include_academic and the plain text otherwise, whatever include_news
\* and output_format are.
C1_ResearchTaskText ==
    research_task # None =>
        /\ research_task.description =
             CASE include_news /\ include_academic ->
                    "Find key information about: " \o topic
                    \o " Include the latest news articles. Also include research papers and academic sources."
               [] include_news /\ ~include_academic ->
                    "Find key information about: " \o topic
                    \o " Include the latest news articles."
               [] ~include_news /\ include_academic ->
                    "Find key information about: " \o topic
                    \o " Also include research papers and academic sources."
               [] ~include_news /\ ~include_academic ->
                    "Find key information about: " \o topic
        /\ include_academic => research_task.expected_output =
             "Detailed Bullet points of key facts, recent developments, and academic references."
        /\ ~include_academic => research_task.expected_output =
             "Bullet points of key facts and recent developments."

C1_Witness ==
    /\ research_task # None
    /\ include_news /\ include_academic
    /\ topic = "AI"
    /\ output_format = "HTML"

\* C2: a press with an empty topic never reaches initialization,
\* composition or submission, and renders the warning and nothing else.
C2_EmptyTopicOnlyWarning ==
    (Done /\ Len(topic) = 0) =>
        /\ stages = <<>>
        /\ kickoffs = 0
        /\ crew = None
        /\ rendered = <<Warning>>

\* C3: when a failure is raised at any stage of a run, exactly one error
\* message is shown, built from the failure's description; the pipeline
\* returns None; no report heading, no report block and nothing of the
\* research findings is rendered.
C3_FailureShowsOneError ==
    (Failed /\ pc \in {"render", "success", "done"}) =>
        /\ Cardinality(Shown("error")) = 1
        /\ \A i \in Shown("error") :
              rendered[i].body = "Error: " \o exc.msg
        /\ result = None
        /\ \A i \in DOMAIN rendered :
              /\ rendered[i].body # "## Research Report"
              /\ ~Contains(rendered[i].body, "report-output")
              /\ ~Contains(rendered[i].body, Findings)

C3_Witness ==
    /\ Done
    /\ rstate = "done"
    /\ research_output = Str(Findings)
    /\ wstate = "failed"

\* C4: on a failed run nothing is rendered after the error message.
C4_NothingAfterError ==
    (Done /\ Failed) => rendered[Len(rendered)].call = "error"

C6_CachedHandles ==
    /\ \A c1, c2 \in tool_calls :
          IF c1.args = c2.args
          THEN c1.ret = c2.ret
          ELSE c1.ret[1] # c2.ret[1] /\ c1.ret[2] # c2.ret[2]
    /\ \A c \in tool_calls :
          /\ Generation(c.args) = 1
          /\ CacheKey(c.args[1], c.args[2], c.args[3]) \in DOMAIN cache
          /\ cache[CacheKey(c.args[1], c.args[2], c.args[3])] = c.ret

C6_Witness ==
    \E c1, c2 \in tool_calls :
        /\ c1.args = c2.args
        /\ c1.created /\ ~c2.created
        /\ pc = "agents"
        /\ <<llm, search_tool>> = c1.ret

\* C7: the writing task names the research task as its only context, the
\* research task names none (one edge, no cycle) and is flagged
\* async_execution; the writing task has not started unless the research
\* task has completed and its output is the context the writer received.
C7_WritingAfterResearch ==
    /\ writing_task # None =>
          /\ writing_task.context = <<research_task>>
          /\ research_task.context = <<>>
          /\ research_task # writing_task
          /\ research_task.async_execution
    /\ wstate # "pending" =>
          /\ rstate = "done"
          /\ research_output # None
          /\ writing_context = <<research_output>>

C7_Witness ==
    /\ pc = "engine"
    /\ wstate = "running"
    /\ research_task.async_execution

SectionNames ==
    <<"Introduction", "Key Findings", "Recent Developments",
      "Future Outlook", "References">>

\* C8: the writing task's description is "Create structured report on:
\* {topic} in {output_format} format." and its expected output, as the
\* task leaves composition (nothing assigns the task afterwards), holds
\* each of the five section names exactly once, in the fixed order.
C8_WritingTaskText ==
    /\ writing_task # None =>
          writing_task.description =
              "Create structured report on: " \o topic \o " in "
              \o output_format \o " format."
    /\ pc = "submit" =>
          LET occ == [k \in DOMAIN SectionNames |->
                        Occurrences(writing_task.expected_output,
                                    SectionNames[k])]
          IN  /\ \A k \in DOMAIN SectionNames : Cardinality(occ[k]) = 1
              /\ \A k \in 1..(Len(SectionNames) - 1) :
                    \A i \in occ[k] : \A j \in occ[k + 1] : i < j

C8_Witness ==
    /\ pc = "submit"
    /\ topic = "Key Findings"
    /\ output_format = "Plain Text"

StageRank ==
    [initialize |-> 1, compose |-> 2, submit |-> 3, render |-> 4]

\* the failure, if any, was raised inside the engine, after submission
FailedInEngine == exc.msg \in {ErrorText.research, ErrorText.writing}

\* C9: a press submits the crew at most once; when the handler has returned
\* it has submitted exactly once iff the topic is not empty and everything
\* before kickoff (tools, agents, tasks, crew) was built; the stages run in
\* the order initialize, compose, submit, render; a failed submission is
\* not submitted again.
C9_SingleSubmission ==
    /\ kickoffs <= 1
    /\ Done =>
          (kickoffs = 1 <=>
              (Len(topic) > 0 /\ (~Failed \/ FailedInEngine)))
    /\ \A i, j \in DOMAIN stages :
          i < j => StageRank[stages[i]] < StageRank[stages[j]]
    /\ (~Failed /\ pc \in {"success", "done"} /\ Len(topic) > 0) =>
          stages = <<"initialize", "compose", "submit", "render">>

C9_Witness ==
    /\ Done
    /\ Failed /\ FailedInEngine
    /\ kickoffs = 1
    /\ stages = <<"initialize", "compose", "submit", "render">>

\* C10: when the handler has returned, the success notice has been rendered
\* exactly once and is the last element, after an empty-topic warning,
\* after a failed run and after a successful run alike.
C10_SuccessNoticeLast ==
    Done =>
        /\ Len(rendered) > 0
        /\ rendered[Len(rendered)] = Element("success", "Research complete!")
        /\ Cardinality(Shown("success")) = 1

C10_Witness ==
    /\ Done
    /\ Failed
    /\ rendered[1].call = "error"
    /\ presses = 2

====
